---- MODULE Spec2Model ----
(***************************************************************************)
(* Water Quality Analyzer (src/app.py): a Streamlit script that is re-run  *)
(* top to bottom on every interaction.  One script run is one action.      *)
(*                                                                         *)
(* Representation                                                          *)
(*   - a numeric cell is <<v>>, an empty CSV cell (pandas NaN) is <<>>;    *)
(*     pH is held in tenths (6.5 is 65), every other quantity in units;    *)
(*   - a text cell (the EC column) is a sequence of one-character strings; *)
(*   - a table is [cols |-> set of header names, rows |-> sequence of      *)
(*     functions from cols to cells];                                      *)
(*   - a status label is [icon, text]: the emoji that lines 81-113 put in  *)
(*     front of the text is what line 187 later searches for;              *)
(*   - a percentage safe_count/total*100 is the fraction                   *)
(*     [num |-> safe_count*100, den |-> total]; den = 0 is the float nan.  *)
(* Input tables follow the documented schema: physical parameters in the   *)
(* physical file, Coliform in the bacterial file, no header shared by the  *)
(* two files except the sample key.                                        *)
(***************************************************************************)
EXTENDS Integers, Sequences, FiniteSets, TLC

VARIABLES page, bundle, clock, shared_history, run

vars == <<page, bundle, clock, shared_history, run>>

\* ------------------------------------------------------------------ bounds
\* Longest table (number of data rows) an uploaded file holds.
MaxRows == 2
\* Largest value of the wall clock (time.time()).
MaxClock == 1
\* Number of completed runs a session of SessionSpec records.
MaxRuns == 2

\* ------------------------------------------------------------------ cells
NaN == <<>>

Num(v) == <<v>>

IsNaN(x) == x = NaN

\* Python comparisons on floats: every comparison with nan is False.
Le(x, c) == ~IsNaN(x) /\ x[1] <= c

Ge(x, c) == ~IsNaN(x) /\ x[1] >= c

Eq(x, c) == ~IsNaN(x) /\ x[1] = c

Digits == {"0", "1", "2", "3", "4", "5", "6", "7", "8", "9"}

DigitVal(ch) ==
  CASE ch = "0" -> 0 [] ch = "1" -> 1 [] ch = "2" -> 2 [] ch = "3" -> 3
    [] ch = "4" -> 4 [] ch = "5" -> 5 [] ch = "6" -> 6 [] ch = "7" -> 7
    [] ch = "8" -> 8 [] ch = "9" -> 9

\* str.split('/'): the pieces of s between the separators, in order.
RECURSIVE SplitFrom(_, _, _)
SplitFrom(s, i, piece) ==
  IF i > Len(s) THEN <<piece>>
  ELSE IF s[i] = "/" THEN <<piece>> \o SplitFrom(s, i + 1, <<>>)
  ELSE SplitFrom(s, i + 1, Append(piece, s[i]))

Split(s) == SplitFrom(s, 1, <<>>)

\* float(text) succeeds on a non-empty run of digits (the alphabet of the
\* model holds digits, "/" and letters only).
Parses(text) == Len(text) > 0 /\ \A i \in 1..Len(text) : text[i] \in Digits

RECURSIVE ToFloatFrom(_, _, _)
ToFloatFrom(text, i, acc) ==
  IF i > Len(text) THEN acc
  ELSE ToFloatFrom(text, i + 1, acc * 10 + DigitVal(text[i]))

ToFloat(text) == Num(ToFloatFrom(text, 1, 0))

\* ----------------------------------------------------------------- tables
NoTable == [cols |-> {}, rows |-> <<>>]

MaxOf(S) ==
  IF S = {} THEN 0
  ELSE LET x == CHOOSE y \in S : \A z \in S : z <= y IN x

\* df.columns.str.strip().str.lower() on the headers the model uses.
Canonical(name) ==
  CASE name = "Sample" -> "sample"
    [] name = "EC" -> "ec"
    [] name = "pH" -> "ph"
    [] name = "TDS" -> "tds"
    [] name = "Hardness" -> "hardness"
    [] name = "DO" -> "do"
    [] name = "Coliform" -> "coliform"
    [] OTHER -> name

\* ------------------------------------------------- split EC (lines 68-73)
ECColumn(t) == [i \in 1..Len(t.rows) |-> t.rows[i]["EC"]]

\* pd.read_csv keeps a column as text when it has no rows or holds a cell
\* that is not a number; a column of numbers and empty cells is numeric and
\* has no .str accessor.
IsTextColumn(col) ==
  Len(col) = 0 \/ \E i \in 1..Len(col) : ~IsNaN(col[i]) /\ ~Parses(col[i])

\* The pieces str.split gives for one cell; an empty cell stays one nan.
PieceCount(cell) == IF IsNaN(cell) THEN 1 ELSE Len(Split(cell))

\* expand=True: as many columns as the longest row has pieces.
ExpandWidth(col) == MaxOf({PieceCount(col[i]) : i \in 1..Len(col)})

\* Cell (row i, column j) of the expanded frame: the piece, or None where
\* the row is empty or has fewer pieces.
Expanded(col, i, j) ==
  IF IsNaN(col[i]) \/ j > Len(Split(col[i]))
  THEN [null |-> TRUE, text |-> <<>>]
  ELSE [null |-> FALSE, text |-> Split(col[i])[j]]

\* astype(float): None becomes nan, text goes through float().
AsFloat(cell) == IF cell.null THEN NaN ELSE ToFloat(cell.text)

\* The try block of line 70 raises nothing.
SplitECSucceeds(t) ==
  /\ "EC" \in t.cols
  /\ LET col == ECColumn(t) IN
       /\ IsTextColumn(col)
       /\ ExpandWidth(col) = 2
       /\ \A i \in 1..Len(col) : \A j \in 1..2 :
            Expanded(col, i, j).null \/ Parses(Expanded(col, i, j).text)

\* phys_df with the two new columns ec_val and temp.
SplitEC(t) ==
  LET col == ECColumn(t) IN
  [cols |-> t.cols \cup {"ec_val", "temp"},
   rows |-> [i \in 1..Len(t.rows) |->
               t.rows[i] @@ ("ec_val" :> AsFloat(Expanded(col, i, 1)))
                         @@ ("temp" :> AsFloat(Expanded(col, i, 2)))]]

\* ------------------------------------------------ merge data (lines 75-77)
\* pd.merge raises KeyError when a table has no Sample column.
HasJoinKey(t) == "Sample" \in t.cols

\* Variant: a merge that pairs every right row with the left row.
MatchingIgnoresKey(rows, k, i) == rows

\* The right rows whose key equals k, in their order.
RECURSIVE Matching(_, _, _)
Matching(rows, k, i) ==
  IF i > Len(rows) THEN <<>>
  ELSE IF rows[i]["Sample"] = k
       THEN <<rows[i]>> \o Matching(rows, k, i + 1)
       ELSE Matching(rows, k, i + 1)

\* how="inner": for every left row in order, one record per matching right
\* row; a left row without a match and a right row without a match are dropped.
RECURSIVE InnerJoin(_, _, _)
InnerJoin(left, right, i) ==
  IF i > Len(left) THEN <<>>
  ELSE LET ms == Matching(right, left[i]["Sample"], 1) IN
       [j \in 1..Len(ms) |-> left[i] @@ ms[j]] \o InnerJoin(left, right, i + 1)

\* Line 77: every header of the merged frame stripped and lower-cased.
Normalize(t) ==
  LET names == {Canonical(c) : c \in t.cols}
      raw(n) == CHOOSE c \in t.cols : Canonical(c) = n
  IN [cols |-> names,
      rows |-> [i \in 1..Len(t.rows) |-> [n \in names |-> t.rows[i][raw(n)]]]]

Merge(phys, bact) ==
  Normalize([cols |-> phys.cols \cup bact.cols,
             rows |-> InnerJoin(phys.rows, bact.rows, 1)])

\* -------------------------------------------------- WHO checks (79-113)
Label(icon, text) == [icon |-> icon, text |-> text]

Missing == Label("warning", "Missing")

pHStatus(x) ==
  IF Ge(x, 65) /\ Le(x, 85) THEN Label("check", "OK")
  ELSE Label("warning", "Out of Range")

\* Variant: the limit of the guideline text of line 53.
tdsStatusGuideline(x) ==
  IF Le(x, 300) THEN Label("check", "OK") ELSE Label("warning", "High")

tdsStatus(x) ==
  IF Le(x, 1000) THEN Label("check", "OK") ELSE Label("warning", "High")

ecStatus(x) ==
  IF Le(x, 1400) THEN Label("check", "OK") ELSE Label("warning", "High")

coliformStatus(x) ==
  IF Eq(x, 0) THEN Label("check", "Safe") ELSE Label("siren", "Unsafe")

hardnessStatus(x) ==
  IF Le(x, 60) THEN Label("droplet", "Soft")
  ELSE IF Le(x, 120) THEN Label("salt", "Moderate")
  ELSE IF Le(x, 180) THEN Label("rock", "Hard")
  ELSE Label("warning", "Very Hard")

doStatus(x) ==
  IF Ge(x, 6) THEN Label("check", "Good") ELSE Label("warning", "Low")

\* The parameters in the order of lines 80-113: status column, source column.
param_columns ==
  <<"ph_status", "tds_status", "ec_status",
    "coliform_status", "hardness_status", "do_status">>

SourceColumn(col) ==
  CASE col = "ph_status" -> "ph"
    [] col = "tds_status" -> "tds"
    [] col = "ec_status" -> "ec_val"
    [] col = "coliform_status" -> "coliform"
    [] col = "hardness_status" -> "hardness"
    [] col = "do_status" -> "do"

Rule(col, x) ==
  CASE col = "ph_status" -> pHStatus(x)
    [] col = "tds_status" -> tdsStatus(x)
    [] col = "ec_status" -> ecStatus(x)
    [] col = "coliform_status" -> coliformStatus(x)
    [] col = "hardness_status" -> hardnessStatus(x)
    [] col = "do_status" -> doStatus(x)

\* Variant: an if/elif chain, where the first absent column ends the checks.
StatusOfChained(df, col, row) ==
  IF \A k \in 1..Len(param_columns) :
       param_columns[k] = col \/ SourceColumn(param_columns[k]) \in df.cols
  THEN IF SourceColumn(col) \in df.cols
       THEN Rule(col, row[SourceColumn(col)]) ELSE Label("warning", "Missing")
  ELSE Label("warning", "Missing")

\* One if/else of lines 80-113: the rule applied to every record when the
\* source column is in the frame, the constant Missing otherwise.
StatusOf(df, col, row) ==
  IF SourceColumn(col) \in df.cols THEN Rule(col, row[SourceColumn(col)])
  ELSE Missing

RECURSIVE WithStatuses(_, _)
WithStatuses(df, k) ==
  IF k = 0 THEN df
  ELSE LET d == WithStatuses(df, k - 1)
           col == param_columns[k]
       IN [cols |-> d.cols \cup {col},
           rows |-> [i \in 1..Len(d.rows) |->
                       d.rows[i] @@ (col :> StatusOf(d, col, d.rows[i]))]]

WHOChecks(df) == WithStatuses(df, Len(param_columns))

\* ------------------------------------------------ AI prediction (115-128)
features == {"ec_val", "temp", "ph", "tds"}

\* The classifier is an external artifact: np.argmax over its three outputs
\* is some fixed function of the feature row, here a family indexed by the
\* bundle's bias.
Magnitude(x) == IF IsNaN(x) THEN 0 ELSE x[1]

Argmax(b, row) ==
  (Magnitude(row["ec_val"]) + Magnitude(row["temp"]) + 2 * Magnitude(row["ph"])
     + Magnitude(row["tds"]) + b.bias) % 3

\* Variant: the labels in ascending order of quality.
InterpretationAscending(k) ==
  CASE k = 0 -> "Poor" [] k = 1 -> "Moderate" [] k = 2 -> "Good"

\* Line 123: df["prediction"].map({0: "Good", 1: "Moderate", 2: "Poor"}).
Interpretation(k) ==
  CASE k = 0 -> "Good" [] k = 1 -> "Moderate" [] k = 2 -> "Poor"

\* The try block of lines 117-123 raises nothing: both files load and the
\* frame has the four feature columns.
PredictionSucceeds(df, b) == b.model /\ b.scaler /\ features \subseteq df.cols

\* Variant: the except branch leaves the label column unset (null).
PredictWithoutFallback(df, b) ==
  [cols |-> df.cols \cup {"prediction", "interpretation"},
   rows |-> [i \in 1..Len(df.rows) |->
     IF PredictionSucceeds(df, b)
     THEN df.rows[i] @@ ("prediction" :> Argmax(b, df.rows[i]))
                     @@ ("interpretation" :> Interpretation(Argmax(b, df.rows[i])))
     ELSE df.rows[i] @@ ("prediction" :> -1)
                     @@ ("interpretation" :> "null")]]

Predict(df, b) ==
  [cols |-> df.cols \cup {"prediction", "interpretation"},
   rows |-> [i \in 1..Len(df.rows) |->
     IF PredictionSucceeds(df, b)
     THEN df.rows[i] @@ ("prediction" :> Argmax(b, df.rows[i]))
                     @@ ("interpretation" :> Interpretation(Argmax(b, df.rows[i])))
     ELSE df.rows[i] @@ ("prediction" :> -1)
                     @@ ("interpretation" :> "Unavailable")]]

\* ------------------------------------------------------ charts (130-164)
\* data[col].value_counts(): each value of the column with its number of rows.
value_counts(df, col) ==
  LET vals == {df.rows[i][col] : i \in 1..Len(df.rows)} IN
  [v \in vals |-> Cardinality({i \in 1..Len(df.rows) : df.rows[i][col] = v})]

param_titles(col) ==
  CASE col = "ph_status" -> "pH Compliance"
    [] col = "tds_status" -> "TDS Compliance"
    [] col = "ec_status" -> "Electrical Conductivity"
    [] col = "coliform_status" -> "Coliform Presence"
    [] col = "hardness_status" -> "Water Hardness"
    [] col = "do_status" -> "Dissolved Oxygen"

\* create_pie_chart returns a figure when the column is in the frame and
\* has at least one value.
HasChart(df, col) ==
  col \in df.cols /\ DOMAIN value_counts(df, col) # {}

\* charts_data: title -> the encoded figure, held as the counts it draws.
Charts(df) ==
  LET cs == {param_columns[k] : k \in 1..Len(param_columns)}
      drawn == {c \in cs : HasChart(df, c)}
  IN [t \in {param_titles(c) : c \in drawn} |->
        value_counts(df, CHOOSE c \in drawn : param_titles(c) = t)]

\* ---------------------------------------------------- advisory (166-174)
ColiformAlert(df) ==
  /\ "coliform_status" \in df.cols
  /\ \E i \in 1..Len(df.rows) :
       df.rows[i]["coliform_status"] = Label("siren", "Unsafe")

\* ------------------------------------------------ text summary (176-190)
\* col.replace('_status','').upper()
SummaryKey(col) ==
  CASE col = "ph_status" -> "PH"
    [] col = "tds_status" -> "TDS"
    [] col = "ec_status" -> "EC"
    [] col = "coliform_status" -> "COLIFORM"
    [] col = "hardness_status" -> "HARDNESS"
    [] col = "do_status" -> "DO"

\* Variant: a pattern that also matches the warning sign.
CountsAsSafeLoose(label) ==
  label.icon \in {"check", "droplet", "salt", "rock", "warning"}

\* str.contains of line 187: the label carries one of the four emoji.
CountsAsSafe(label) == label.icon \in {"check", "droplet", "salt", "rock"}

safe_count(df, col) ==
  Cardinality({i \in 1..Len(df.rows) : CountsAsSafe(df.rows[i][col])})

\* safe_count/total*100 as a fraction; total = 0 gives nan (den = 0).
Percentage(df, col) == [num |-> safe_count(df, col) * 100, den |-> Len(df.rows)]

\* The status columns the loop of line 184 records a percentage for.
Summarised(df) ==
  {param_columns[k] : k \in 1..Len(param_columns)} \cap df.cols

Summary(df) ==
  [key \in {SummaryKey(c) : c \in Summarised(df)} |->
     Percentage(df, CHOOSE c \in Summarised(df) : SummaryKey(c) = key)]

\* ----------------------------------------------------------- script runs
\* What one run of the script leaves on the page.  phys_file and bact_file
\* are the two uploaded tables as pd.read_csv returns them.
Blank ==
  [outcome |-> "none", diagnostic |-> "none",
   phys_file |-> NoTable, bact_file |-> NoTable,
   df |-> NoTable, summary |-> <<>>, charts |-> <<>>, advisory |-> FALSE,
   shown |-> <<>>, total_analyses |-> 0]

\* Lines 71-73: st.error and st.stop; nothing below line 73 runs.
Stopped(phys, bact) ==
  [Blank EXCEPT !.outcome = "stopped", !.diagnostic = "Unable to split 'EC'",
                !.phys_file = phys, !.bact_file = bact]

\* Line 76 raises KeyError: 'Sample'; the script run ends with the exception.
Raised(phys, bact) ==
  [Blank EXCEPT !.outcome = "exception", !.diagnostic = "KeyError: 'Sample'",
                !.phys_file = phys, !.bact_file = bact]

\* Lines 75-128: the annotated frame of a run that gets past line 76.
Annotated(phys, bact, b) == Predict(WHOChecks(Merge(SplitEC(phys), bact)), b)

\* Lines 130-211 on the annotated frame.
Completed(phys, bact, b) ==
  LET df == Annotated(phys, bact, b) IN
  [Blank EXCEPT !.outcome = "completed",
                !.diagnostic = IF PredictionSucceeds(df, b) THEN "none"
                               ELSE "Model/scaler issue",
                !.phys_file = phys, !.bact_file = bact,
                !.df = df, !.summary = Summary(df), !.charts = Charts(df),
                !.advisory = ColiformAlert(df)]

\* Lines 63-211 with both files uploaded.
Analysis(phys, bact, b) ==
  IF ~SplitECSucceeds(phys) THEN Stopped(phys, bact)
  ELSE IF ~(HasJoinKey(phys) /\ HasJoinKey(bact)) THEN Raised(phys, bact)
  ELSE Completed(phys, bact, b)

\* Lines 199-208: the entry of a run, from its summary_data, charts_data
\* and annotated frame.
HistoryEntry(r, now) ==
  [timestamp |-> now,
   summary |-> r.summary,
   charts |-> r.charts,
   total_samples |-> Len(r.df.rows),
   ai_quality |-> IF "interpretation" \in r.df.cols
                  THEN value_counts(r.df, "interpretation") ELSE <<>>,
   has_coliform_alert |-> ColiformAlert(r.df),
   user |-> now % 10000]

\* Variant: the append moved above the try block of line 69.
SavesEveryUpload(r) == r.outcome \in {"stopped", "exception", "completed"}

\* Line 210 is reached by a run that was neither stopped nor raised.
Saves(r) == r.outcome = "completed"

\* Lines 44-211: one run of the Dashboard page with both files uploaded.
Dashboard(phys, bact) ==
  /\ page' = "Dashboard"
  /\ run' = Analysis(phys, bact, bundle)
  /\ shared_history' =
       IF Saves(run') THEN Append(shared_history, HistoryEntry(run', clock))
       ELSE shared_history
  /\ UNCHANGED <<bundle, clock>>

\* Lines 213-214: at least one of the two files is not uploaded.
DashboardNoFiles ==
  /\ page' = "Dashboard"
  /\ run' = [Blank EXCEPT !.outcome = "info"]
  /\ UNCHANGED <<bundle, clock, shared_history>>

Reverse(s) == [i \in 1..Len(s) |-> s[Len(s) + 1 - i]]

\* Variant: the list reversed in place (list.reverse()) to show it.
HistoryReversesInPlace ==
  /\ page' = "History"
  /\ run' = [Blank EXCEPT !.outcome = "history",
                          !.shown = Reverse(shared_history),
                          !.total_analyses = Len(shared_history)]
  /\ shared_history' = Reverse(shared_history)
  /\ UNCHANGED <<bundle, clock>>

\* Lines 219-280: the entries, newest first.
History ==
  /\ page' = "History"
  /\ run' = [Blank EXCEPT !.outcome = "history",
                          !.shown = Reverse(shared_history),
                          !.total_analyses = Len(shared_history)]
  /\ UNCHANGED <<bundle, clock, shared_history>>

\* max(history, key=timestamp): the first entry with the largest timestamp.
Latest(h) ==
  LET i == CHOOSE k \in 1..Len(h) :
             /\ \A j \in 1..Len(h) : h[j].timestamp <= h[k].timestamp
             /\ \A j \in 1..(k - 1) : h[j].timestamp < h[k].timestamp
  IN h[i]

\* Lines 285-320: the number of analyses and the latest one.
Map ==
  /\ page' = "Map"
  /\ run' = [Blank EXCEPT !.outcome = "map",
                          !.shown = IF shared_history = <<>> THEN <<>>
                                    ELSE <<Latest(shared_history)>>,
                          !.total_analyses = Len(shared_history)]
  /\ UNCHANGED <<bundle, clock, shared_history>>

\* time.time() moves on between script runs.
Tick ==
  /\ clock < MaxClock
  /\ clock' = clock + 1
  /\ UNCHANGED <<page, bundle, shared_history, run>>

\* ----------------------------------------------------------------- inputs
Row(sample, ec, ph, tds, hardness, do) ==
  [c \in {"Sample", "EC", "pH", "TDS", "Hardness", "DO"} |->
     CASE c = "Sample" -> sample [] c = "EC" -> ec [] c = "pH" -> ph
       [] c = "TDS" -> tds [] c = "Hardness" -> hardness [] c = "DO" -> do]

PhysRows ==
  << Row("S1", <<"1","2","0","0","/","2","5">>, Num(70), Num(500), Num(70), Num(7)),
     Row("S2", <<"1","5","0","0","/","3","0">>, Num(92), Num(1001), Num(181), Num(5)),
     Row("S1", <<"1","4","0","0","/","2","5">>, Num(65), Num(1000), Num(60), Num(6)),
     Row("S2", <<"1","4","0","1","/","2","0">>, Num(86), Num(300), Num(120), NaN),
     Row("S3", <<"1","2","0","0">>, Num(85), NaN, Num(121), Num(6)),
     Row("S3", <<"a","b","/","2","5">>, Num(64), Num(999), Num(180), Num(8)),
     Row("S1", NaN, NaN, Num(1000), NaN, Num(6)),
     Row("S2", <<"1","2","/","5","/","3">>, Num(70), Num(500), Num(61), Num(7)) >>

BactRow(sample, coliform) ==
  [c \in {"Sample", "Coliform"} |->
     CASE c = "Sample" -> sample [] c = "Coliform" -> coliform]

BactRows ==
  << BactRow("S1", Num(0)), BactRow("S2", Num(3)), BactRow("S4", NaN) >>

\* The row selections of a file: up to MaxRows catalogue rows, in order.
Selections(n) ==
  {s \in UNION {[1..k -> 1..n] : k \in 0..MaxRows} :
     \A i \in 1..Len(s) : \A j \in 1..Len(s) : i < j => s[i] < s[j]}

\* A file: the selected rows, cut down to the columns of its header.
File(catalogue, sel, header) ==
  [cols |-> header,
   rows |-> [i \in 1..Len(sel) |-> [c \in header |-> catalogue[sel[i]][c]]]]

PhysHeaders ==
  {{"Sample", "EC"} \cup opt : opt \in SUBSET {"pH", "TDS", "Hardness", "DO"}}
    \cup {{"EC", "pH", "TDS", "Hardness", "DO"},
          {"Sample", "pH", "TDS", "Hardness", "DO"}}

BactHeaders == {{"Sample", "Coliform"}, {"Sample"}, {"Coliform"}}

PhysFiles ==
  {File(PhysRows, s, h) : s \in Selections(Len(PhysRows)), h \in PhysHeaders}

BactFiles ==
  {File(BactRows, s, h) : s \in Selections(Len(BactRows)), h \in BactHeaders}

\* The model and scaler files on disk: which of them load, and which
\* classifier the model file holds.
Bundles ==
  {[model |-> FALSE, scaler |-> TRUE, bias |-> 0],
   [model |-> TRUE, scaler |-> FALSE, bias |-> 0],
   [model |-> TRUE, scaler |-> TRUE, bias |-> 0],
   [model |-> TRUE, scaler |-> TRUE, bias |-> 1]}

\* ---------------------------------------------------------- specifications
\* Lines 25-26: a new session has an empty history.
Init ==
  /\ page = "Dashboard"
  /\ bundle \in Bundles
  /\ clock = 0
  /\ shared_history = <<>>
  /\ run = Blank

\* The first analysis of a session, over every pair of files: the session
\* opens on the Dashboard with nothing uploaded, then both files arrive.
FirstAnalysis ==
  /\ shared_history = <<>>
  /\ page = "Dashboard"
  /\ run.outcome = "info"
  /\ \E phys \in PhysFiles : \E bact \in BactFiles : Dashboard(phys, bact)

Next == FirstAnalysis \/ DashboardNoFiles \/ History \/ Map

Spec == Init /\ [][Next]_vars

\* A session of several analyses, over a few representative uploads.
FullPhys == {"Sample", "EC", "pH", "TDS", "Hardness", "DO"}

SessionUploads ==
  {[phys |-> File(PhysRows, <<1, 2>>, FullPhys),
    bact |-> File(BactRows, <<1, 2>>, {"Sample", "Coliform"})],
   [phys |-> File(PhysRows, <<1>>, FullPhys),
    bact |-> File(BactRows, <<1>>, {"Sample"})],
   [phys |-> File(PhysRows, <<1, 6>>, FullPhys),
    bact |-> File(BactRows, <<1>>, {"Sample", "Coliform"})],
   [phys |-> File(PhysRows, <<1>>, FullPhys),
    bact |-> File(BactRows, <<1>>, {"Coliform"})]}

SessionAnalysis ==
  /\ Len(shared_history) < MaxRuns
  /\ \E u \in SessionUploads : Dashboard(u.phys, u.bact)

SessionNext == SessionAnalysis \/ DashboardNoFiles \/ History \/ Map \/ Tick

SessionSpec == Init /\ [][SessionNext]_vars

\* ------------------------------------------------------------------ claims
Analysed == run.outcome \in {"stopped", "exception", "completed"}

Done == run.outcome = "completed"

Records == {run.df.rows[i] : i \in 1..Len(run.df.rows)}

KeysOf(file) ==
  IF "Sample" \in file.cols
  THEN {file.rows[i]["Sample"] : i \in 1..Len(file.rows)} ELSE {}

SampleKeys == {"S1", "S2", "S3", "S4"}

\* C1: after the merge the fused table holds a record for sample key K if
\* and only if K is a key of the physical table and of the bacterial table.
C1_FusionIsInnerJoin ==
  Done =>
    \A k \in SampleKeys :
      (\E r \in Records : r["sample"] = k)
        <=> (k \in KeysOf(run.phys_file) /\ k \in KeysOf(run.bact_file))

\* A completed run with a key in both tables, one only in the physical
\* table and one only in the bacterial table.
C1_Witness ==
  /\ Done
  /\ \E r \in Records : r["sample"] = "S1"
  /\ KeysOf(run.phys_file) \ KeysOf(run.bact_file) # {}
  /\ KeysOf(run.bact_file) \ KeysOf(run.phys_file) # {}

Present(col) == SourceColumn(col) \in run.df.cols

Value(r, col) == r[SourceColumn(col)]

\* x is a number within [lo, hi]; x is a number not above hi.
Within(x, lo, hi) == x # NaN /\ lo <= x[1] /\ x[1] <= hi

AtMost(x, hi) == x # NaN /\ x[1] <= hi

Scenario(r) ==
  /\ {"ec", "ph", "tds", "hardness", "coliform"} \subseteq DOMAIN r
  /\ r["ec"] = <<"1","2","0","0","/","2","5">>
  /\ r["ph"] = Num(70) /\ r["tds"] = Num(500)
  /\ r["hardness"] = Num(70) /\ r["coliform"] = Num(0)

Vocabulary(col) ==
  CASE col = "ph_status" -> {"OK", "Out of Range"}
    [] col = "tds_status" -> {"OK", "High"}
    [] col = "ec_status" -> {"OK", "High"}
    [] col = "coliform_status" -> {"Safe", "Unsafe"}
    [] col = "hardness_status" -> {"Soft", "Moderate", "Hard", "Very Hard"}
    [] col = "do_status" -> {"Good", "Low"}

\* C3: whatever parameter columns the fused table has, every record carries
\* for each parameter exactly one status: one of the parameter's own
\* vocabulary when its column is present, Missing when it is absent.
C3_RulesAreIndependent ==
  Done =>
    \A r \in Records : \A k \in 1..Len(param_columns) :
      LET col == param_columns[k] IN
      /\ col \in DOMAIN r
      /\ Present(col) => r[col].text \in Vocabulary(col)
      /\ ~Present(col) => r[col].text = "Missing"

\* A record with pH and coliform absent and TDS, hardness and DO evaluated.
C3_Witness ==
  /\ Done
  /\ Records # {}
  /\ ~Present("ph_status") /\ ~Present("coliform_status")
  /\ Present("tds_status") /\ Present("hardness_status") /\ Present("do_status")
  /\ \A r \in Records : r["ph_status"].text = "Missing"
  /\ \E r \in Records : r["tds_status"].text = "OK"

Statuses(r) == [k \in 1..Len(param_columns) |-> r[param_columns[k]]]

\* C4: a parameter whose source column is absent has the status Missing on
\* every record, has no entry in the compliance summary, and raises no
\* issue or alert (for coliform: no advisory, has_coliform_alert false).
C4_MissingIsExcluded ==
  (Done /\ Records # {}) =>
    \A k \in 1..Len(param_columns) :
      LET col == param_columns[k] IN
      ~Present(col) =>
        /\ \A r \in Records : r[col].text = "Missing"
        /\ SummaryKey(col) \notin DOMAIN run.summary
        /\ col = "coliform_status" =>
             /\ ~run.advisory
             /\ \A i \in 1..Len(shared_history) :
                  ~shared_history[i].has_coliform_alert

\* A working bundle: both files load.
Working == [model |-> TRUE, scaler |-> TRUE, bias |-> 0]

PredictionUnavailable ==
  ~(bundle.model /\ bundle.scaler)
    \/ ~({"EC", "pH", "TDS"} \subseteq run.phys_file.cols)

\* C5: with the classifier or the scaler not loading, or a feature column
\* missing, the run ends as it would with a working model, and when it
\* completes every record is labelled Unavailable while the six status
\* columns, the summary and the history entry are those of a working model.
C5_ModelFailureDegrades ==
  (Analysed /\ PredictionUnavailable) =>
    LET ref == Analysis(run.phys_file, run.bact_file, Working) IN
    /\ run.outcome = ref.outcome
    /\ Done =>
         /\ \A r \in Records : r["interpretation"] = "Unavailable"
         /\ Len(run.df.rows) = Len(ref.df.rows)
         /\ \A i \in 1..Len(run.df.rows) :
              Statuses(run.df.rows[i]) = Statuses(ref.df.rows[i])
         /\ run.summary = ref.summary
         /\ Len(shared_history) = 1
         /\ shared_history[1].summary = ref.summary
         /\ shared_history[1].total_samples = Len(ref.df.rows)

\* A completed run without the model file, with records to label.
C5_Witness ==
  /\ Done /\ ~bundle.model
  /\ Records # {}
  /\ \A r \in Records : r["interpretation"] = "Unavailable"
  /\ Len(shared_history) = 1

CountText(col, texts) ==
  Cardinality({i \in 1..Len(run.df.rows) : run.df.rows[i][col].text \in texts})

Scored == {"ph_status", "tds_status", "ec_status", "coliform_status", "do_status"}

\* C6: for pH, TDS, conductivity, coliform and dissolved oxygen with the
\* column present and at least one record, the percentage is 100 times the
\* number of OK / Safe / Good records over the number of records, so it is
\* below 100 exactly when a record is Out of Range, High, Unsafe or Low.
C6_CompliancePercentage ==
  (Done /\ run.df.rows # <<>>) =>
    \A col \in Scored :
      Present(col) =>
        /\ SummaryKey(col) \in DOMAIN run.summary
        /\ LET pct == run.summary[SummaryKey(col)] IN
           /\ pct.den = Len(run.df.rows)
           /\ pct.num = 100 * CountText(col, {"OK", "Safe", "Good"})
           /\ (pct.num < 100 * pct.den)
                <=> CountText(col, {"Out of Range", "High", "Unsafe", "Low"}) > 0

\* A record with pH 9.2 next to a compliant one: pH compliance is 50%.
C6_Witness ==
  /\ Done /\ Present("ph_status")
  /\ \E r \in Records : r["ph"] = Num(92) /\ r["ph_status"].text = "Out of Range"
  /\ \E r \in Records : r["ph_status"].text = "OK"
  /\ run.summary["PH"].num < 100 * run.summary["PH"].den
  /\ run.summary["PH"].num > 0

\* The entry a completed run records, field by field.
EntryOf(e, r, now) ==
  /\ e.timestamp = now /\ e.user = now % 10000
  /\ e.summary = r.summary /\ e.charts = r.charts
  /\ e.total_samples = Len(r.df.rows)
  /\ e.ai_quality = value_counts(r.df, "interpretation")
  /\ e.has_coliform_alert = r.advisory

\* C7: the history changes only by a run that completed, which appends one
\* entry whose seven fields all come from that run; a run that stops (EC
\* rejected, files missing) or raises leaves the history as it was.
C7_AppendIsAtomic ==
  [][ /\ shared_history' # shared_history =>
           /\ run'.outcome = "completed"
           /\ Len(shared_history') = Len(shared_history) + 1
           /\ SubSeq(shared_history', 1, Len(shared_history)) = shared_history
           /\ EntryOf(shared_history'[Len(shared_history')], run', clock)
      /\ run'.outcome \in {"stopped", "exception", "info"} =>
           shared_history' = shared_history ]_vars

\* A stopped run after a recorded one: the recorded entry is all there is.
C7_Witness ==
  /\ Len(shared_history) = 1
  /\ run.outcome = "stopped"
  /\ shared_history[1].total_samples > 0

\* The cell reads "<value>/<temperature>"; an empty cell is a missing
\* measurement, not a malformed one.
WellFormedEC(cell) ==
  \/ cell = NaN
  \/ /\ Len(Split(cell)) = 2
     /\ Parses(Split(cell)[1]) /\ Parses(Split(cell)[2])

CompositeFieldParses(file) ==
  /\ "EC" \in file.cols
  /\ \A i \in 1..Len(file.rows) : WellFormedEC(file.rows[i]["EC"])

NothingProduced ==
  /\ run.df = NoTable /\ run.summary = <<>> /\ run.charts = <<>>
  /\ shared_history = <<>>

\* C8: a run whose EC field does not parse on some physical row, or whose
\* sample key column is absent from a table, ends in an error with no
\* status, prediction, summary or history entry; every other run over a
\* physical table with a filled EC cell completes.
C8_StructuralFailureAborts ==
  Analysed =>
    /\ ~CompositeFieldParses(run.phys_file) =>
         run.outcome = "stopped" /\ NothingProduced
    /\ ~("Sample" \in run.phys_file.cols /\ "Sample" \in run.bact_file.cols) =>
         run.outcome \in {"stopped", "exception"} /\ NothingProduced
    /\ (/\ CompositeFieldParses(run.phys_file)
        /\ \E i \in 1..Len(run.phys_file.rows) : run.phys_file.rows[i]["EC"] # NaN
        /\ "Sample" \in run.phys_file.cols
        /\ "Sample" \in run.bact_file.cols) => Done

Predicted ==
  /\ Done /\ bundle.model /\ bundle.scaler
  /\ {"EC", "pH", "TDS"} \subseteq run.phys_file.cols

\* C9 as stated: class index 0, 1, 2 is labelled Poor, Moderate, Good.
C9_LabelOrderAscending ==
  Predicted =>
    \A r \in Records :
      /\ r["prediction"] \in 0..2
      /\ r["interpretation"] = <<"Poor", "Moderate", "Good">>[r["prediction"] + 1]

\* C9 (amended): with model, scaler and the feature columns available every
\* record's label is one of Good, Moderate, Poor, the label of the winning
\* class index 0, 1, 2 respectively, never Unavailable.
C9_LabelOrderOfCode ==
  Predicted =>
    \A r \in Records :
      /\ r["prediction"] \in 0..2
      /\ r["interpretation"] = <<"Good", "Moderate", "Poor">>[r["prediction"] + 1]

\* Two records of one run, classed 0 and 2.
C9_Witness ==
  /\ Predicted
  /\ \E r \in Records : r["prediction"] = 0 /\ r["interpretation"] = "Good"
  /\ \E r \in Records : r["prediction"] = 2 /\ r["interpretation"] = "Poor"

\* C10: the history starts empty and only grows at its end: a completed
\* Dashboard run adds exactly one entry, the History page, the Map page and
\* a Dashboard run without both files add none, and no step removes,
\* reorders or alters an entry.
C10_HistoryIsAppendOnly ==
  /\ shared_history = <<>>
  /\ [][ /\ Len(shared_history') >= Len(shared_history)
         /\ SubSeq(shared_history', 1, Len(shared_history)) = shared_history
         /\ (page' = "Dashboard" /\ run'.outcome = "completed" /\ clock' = clock)
              => Len(shared_history') = Len(shared_history) + 1
         /\ (page' \in {"History", "Map"} \/ run'.outcome = "info")
              => shared_history' = shared_history ]_vars

\* The History page showing two recorded runs, newest first.
C10_Witness ==
  /\ page = "History"
  /\ Len(shared_history) = 2
  /\ shared_history[1] # shared_history[2]
  /\ run.shown = <<shared_history[2], shared_history[1]>>

====
